---- MODULE Spec2Model ----
(***************************************************************************)
(* QuantaLearn: the progression state machine of MainApp                   *)
(* (src/components/AuthPage.tsx, MainApp and the views it renders).        *)
(*                                                                         *)
(* The React state of MainApp is the state of the model; every event       *)
(* handler and every resolution of a gateway promise is one action.        *)
(* Indices (unlockedModuleIndex, activeModule.index, unlockedCourseIndex)  *)
(* are 0-based as in the source; TLA+ sequences are 1-based, so element i  *)
(* of an array a is a[i + 1].                                              *)
(*                                                                         *)
(* An option string of a question is modelled by its rank in the order     *)
(* Array.prototype.sort() uses (UTF-16 code unit order), a number.         *)
(* JSON.stringify is injective on arrays of strings, so the comparison of  *)
(* two stringified arrays is equality of the two sequences.                *)
(* Quiz objects are shared by reference between the stored course, the     *)
(* activeCourse copy and the activeModule copy (object spread is shallow), *)
(* so they live in a heap (quizObj) and the records hold references.       *)
(***************************************************************************)
EXTENDS Integers, Sequences, FiniteSets, TLC

\* ---------------------------------------------------------------- bounds
MaxCourses == 2        \* standalone courses created in one session
MaxPaths == 1          \* learning paths created in one session
MaxModules == 2        \* modules per course the gateway returns (1..MaxModules)
MaxPathCourses == 2    \* courses per learning path the gateway returns
MaxAttempts == 4       \* cap on a module's quizAttempts counter
MaxGradeQuestions == 3  \* questions of a quiz in GradeSpec
MaxMounts == 2         \* times MainApp is mounted (sessions of one user)
MaxAccounts == 3       \* accounts in the user database of AuthSpec

\* ------------------------------------------------------ program constants
ModulePassMark == 80
MockPassMark == 70
BadgeMark == 80

\* ------------------------------------------------------------ null values
Null == [null |-> TRUE]      \* null / undefined object
Undef == -1                  \* undefined number (quizScore, mockTestScore)

LOCKED == "LOCKED"
GENERATING == "GENERATING"
READY == "READY"
FAILED == "FAILED"
NoState == "undefined"       \* Course.mockTestState before the first request

\* ---------------------------------------------------------------- helpers
At(s, i) == s[i + 1]
Idx(s) == 0 .. (Len(s) - 1)

\* Array.prototype.sort() on strings: ascending code-unit order.
RECURSIVE Insert(_, _)
Insert(x, s) ==
    IF s = <<>> THEN <<x>>
    ELSE IF x <= Head(s) THEN <<x>> \o s
    ELSE <<Head(s)>> \o Insert(x, Tail(s))

RECURSIVE Sort(_)
Sort(s) == IF s = <<>> THEN <<>> ELSE Insert(Head(s), Sort(Tail(s)))

\* Math.round(x) for x = num / den >= 0: floor(x + 1/2).
Round(num, den) == (2 * num + den) \div (2 * den)

\* Math.round((score / total) * 100)
Percentage(score, total) == Round(100 * score, total)

\* UserAnswers with the submitted array used as it was clicked, not sorted.
UserAnswersUnsorted(ans) == IF ans = Null THEN <<>> ELSE ans.sel

\* answers[index]?.sort() || []  (answers[index] is Null when absent, else
\* [sel |-> the selected options in click order])
UserAnswers(ans) == IF ans = Null THEN <<>> ELSE Sort(ans.sel)

\* One iteration of the forEach of handleQuizSubmit / handleMockTestSubmit:
\* 1 when the sorted submitted options equal the sorted correct options.
QuestionScore(q, ans) ==
    IF UserAnswers(ans) = Sort(q.correctAnswers) THEN 1 ELSE 0

RECURSIVE SumScore(_, _, _)
SumScore(questions, answers, k) ==
    IF k = 0 THEN 0
    ELSE SumScore(questions, answers, k - 1) + QuestionScore(questions[k], answers[k])

\* the score the forEach loop leaves in `score`
Score(quiz, answers) == SumScore(quiz, answers, Len(quiz))

\* the quiz after the loop: q.correctAnswers.sort() sorts each array in place
SortedQuiz(quiz) ==
    [k \in 1 .. Len(quiz) |-> [quiz[k] EXCEPT !.correctAnswers = Sort(@)]]

\* ------------------------------------------------- what the gateway returns
\* A question: its type, its options and its correctAnswers, each an array
\* in the order the gateway sent it.
MCQ == "MCQ"
MSQ == "MSQ"
Q(type, options, correct) ==
    [type |-> type, options |-> options, correctAnswers |-> correct]

\* generateModuleContentAndQuiz: the quiz of a module (5 questions, one of
\* them multi-select with its correct options not in sorted order).
ModuleQuiz ==
    << Q(MCQ, <<1, 2>>, <<1>>), Q(MCQ, <<1, 2>>, <<2>>), Q(MCQ, <<1, 2>>, <<1>>),
       Q(MCQ, <<1, 2>>, <<2>>), Q(MSQ, <<1, 2>>, <<2, 1>>) >>

\* generateMockTest: the mock test of a course (7 questions).
MockQuiz ==
    << Q(MCQ, <<1, 2>>, <<1>>), Q(MCQ, <<1, 2>>, <<2>>), Q(MCQ, <<1, 2>>, <<1>>),
       Q(MCQ, <<1, 2>>, <<2>>), Q(MCQ, <<1, 2>>, <<1>>), Q(MCQ, <<1, 2>>, <<2>>),
       Q(MSQ, <<1, 2>>, <<2, 1>>) >>

\* Titles the gateway gives to courses: the k-th standalone course is titled
\* Titles[k]; the courses of a path take any of them (the first one Titles[1]).
Titles == <<"T1", "T2", "T3", "T4">>
PathTitles == {Titles[1], Titles[2]}

\* The answer sheets the learner submits (answers: Record<number, string[]>;
\* an entry is Null when the question was not answered, else [sel |-> the
\* selected options in click order]).
Sel(a) == [sel |-> a]

ModuleSheets ==
    { << Sel(<<1>>), Sel(<<2>>), Sel(<<1>>), Sel(<<2>>), Sel(<<1, 2>>) >>,  \* 5/5
      << Sel(<<1>>), Sel(<<2>>), Sel(<<1>>), Sel(<<2>>), Sel(<<2, 1>>) >>,  \* 5/5
      << Sel(<<1>>), Sel(<<2>>), Sel(<<1>>), Sel(<<2>>), Sel(<<2>>) >>,     \* 4/5
      << Sel(<<2>>), Sel(<<2>>), Sel(<<1>>), Sel(<<2>>), Sel(<<1, 2>>) >>,  \* 4/5
      << Null, Sel(<<1>>), Sel(<<1>>), Sel(<<2>>), Sel(<<1, 2>>) >> }       \* 3/5

MockSheets ==
    { << Sel(<<1>>), Sel(<<2>>), Sel(<<1>>), Sel(<<2>>), Sel(<<1>>), Sel(<<2>>),
         Sel(<<1, 2>>) >>,                                                  \* 7/7
      << Sel(<<1>>), Sel(<<2>>), Sel(<<1>>), Sel(<<2>>), Sel(<<1>>), Sel(<<2>>),
         Sel(<<1>>) >>,                                                     \* 6/7
      << Sel(<<1>>), Sel(<<2>>), Sel(<<1>>), Sel(<<2>>), Sel(<<1>>), Null,
         Sel(<<>>) >>,                                                      \* 5/7
      << Sel(<<2>>), Sel(<<1>>), Sel(<<1>>), Sel(<<2>>), Sel(<<1>>), Sel(<<2>>),
         Sel(<<2, 1>>) >>,                                                  \* 5/7
      << Sel(<<2>>), Sel(<<1>>), Sel(<<2>>), Sel(<<2>>), Sel(<<1>>), Sel(<<2>>),
         Sel(<<2, 1>>) >> }                                                 \* 4/7

\* What QuizView.handleAnswerChange can leave in answers[qIndex]: nothing,
\* one option (MCQ), or the selected options in click order (MSQ; the empty
\* array after a selection was toggled off).
RECURSIVE Arrangements(_)
Arrangements(S) ==
    {<<>>} \cup UNION {{<<x>> \o a : a \in Arrangements(S \ {x})} : x \in S}

Range(s) == {s[k] : k \in 1 .. Len(s)}

AnswerChoices(q) ==
    IF q.type = MSQ
    THEN {Null} \cup {Sel(a) : a \in Arrangements(Range(q.options))}
    ELSE {Null} \cup {Sel(<<x>>) : x \in Range(q.options)}

\* the sequences that take their k-th element from the k-th set
RECURSIVE ProductSeq(_)
ProductSeq(sets) ==
    IF sets = <<>> THEN {<<>>}
    ELSE {<<x>> \o t : x \in Head(sets), t \in ProductSeq(Tail(sets))}

\* every sheet QuizView can submit for a quiz
AnswerSheets(quiz) ==
    ProductSeq([k \in 1 .. Len(quiz) |-> AnswerChoices(quiz[k])])

\* ------------------------------------------------------------------ state
VARIABLES
    courses,        \* useState<Course[]>
    learningPaths,  \* useState<LearningPath[]>
    activePath,     \* useState<LearningPath | null>: a copy, or Null
    activeCourse,   \* useState<Course | null>: a copy, or Null
    activeModule,   \* useState<{module, index} | null>: a copy, or Null
    view,           \* useState<'dashboard' | ...>
    loading,        \* useState(false)
    error,          \* useState<string | null>: TRUE when a message is set
    quizScore,      \* useState({score, total}) of the last module quiz
    mockTestScore,  \* useState({score, total}) of the last mock test
    quizObj,        \* heap of the Quiz objects the gateway returned
    pending,        \* gateway calls awaiting their answer, with their closure
    clock,          \* the wall clock new Date() reads
    apiKey,         \* user.apiKey is a non-empty string (prop of MainApp)
    localStorage,   \* window.localStorage: key -> [json |-> text], or Null
    mounts,         \* how many times MainApp has been mounted
    user,           \* AuthProvider's useState<User | null>
    authError,      \* AuthPage's useState(''): the message shown, or ""
    session         \* the kind of session explored (never changes)

vars == << courses, learningPaths, activePath, activeCourse, activeModule, view,
           loading, error, quizScore, mockTestScore, quizObj, pending, clock,
           apiKey, localStorage, mounts, user, authError, session >>

\* the state of AuthProvider and AuthPage
Auth == << user, authError >>

\* The sessions explored.  In a session "one" the learner creates a single
\* course or a single learning path and submits any of the answer sheets.
\* In a session "many" the learner creates up to MaxCourses standalone
\* courses and submits full-mark sheets only.  MainApp is mounted again
\* (MainAppMount) in a session "one" only.
Sessions == {"one", "many"}
CoursesAllowed == IF session = "one" THEN 1 ELSE MaxCourses
PathsAllowed == IF session = "one" THEN MaxPaths ELSE 0

\* ------------------------------------------------------ the snapshot store
\* new Date().toISOString() of signup: the id of the account created at
\* millisecond t.
UserIdAt(t) == [t |-> t]

\* user.id of the user MainApp is mounted for (who signed up before the
\* session), and the ids an account can have.
UserId == UserIdAt(0)
Users == {UserIdAt(t) : t \in 0 .. MaxAccounts}

\* `quanta_courses_${user.id}` and `quanta_paths_${user.id}`
CoursesKey(u) == [store |-> "quanta_courses", user |-> u]
PathsKey(u) == [store |-> "quanta_paths", user |-> u]
COURSES_STORAGE_KEY == CoursesKey(UserId)
PATHS_STORAGE_KEY == PathsKey(UserId)
StorageKeys == {CoursesKey(u) : u \in Users} \cup {PathsKey(u) : u \in Users}

\* JSON.stringify of a Course[]: the text holds every quiz object in full,
\* in place of the reference the course holds in memory.
StringifyCourses(cs, heap) ==
    [i \in 1 .. Len(cs) |->
        [cs[i] EXCEPT
            !.modules = [k \in 1 .. Len(cs[i].modules) |->
                [cs[i].modules[k] EXCEPT
                    !.quiz = IF @ = Null THEN Null ELSE heap[@]]],
            !.mockTest = IF @ = Null THEN Null ELSE heap[@]]]

\* JSON.stringify of a LearningPath[]
StringifyPaths(ps, heap) ==
    [j \in 1 .. Len(ps) |->
        [ps[j] EXCEPT !.courses = StringifyCourses(ps[j].courses, heap)]]

\* JSON.parse of a stored Course[]: every quiz of the text becomes an object
\* of its own, referred to by the course and module that hold it.
ParseCourses(text) ==
    [i \in 1 .. Len(text) |->
        [text[i] EXCEPT
            !.modules = [k \in 1 .. Len(text[i].modules) |->
                [text[i].modules[k] EXCEPT
                    !.quiz = IF @ = Null THEN Null
                             ELSE [cid |-> text[i].id, slot |-> k - 1]]],
            !.mockTest = IF @ = Null THEN Null
                         ELSE [cid |-> text[i].id, slot |-> -1]]]

\* JSON.parse of a stored LearningPath[]
ParsePaths(text) ==
    [j \in 1 .. Len(text) |->
        [text[j] EXCEPT !.courses = ParseCourses(text[j].courses)]]

\* The quiz a stored course holds at a slot (-1: its mock test), or Null.
StoredQuiz(c, slot) ==
    IF slot = -1 THEN c.mockTest
    ELSE IF slot < Len(c.modules) THEN c.modules[slot + 1].quiz
    ELSE Null

\* The quiz objects JSON.parse creates for the stored courses cs.
ParsedQuizzes(cs) ==
    LET refs == {r \in [cid : {cs[i].id : i \in 1 .. Len(cs)},
                        slot : -1 .. MaxModules] :
                    \E i \in 1 .. Len(cs) :
                        cs[i].id = r.cid /\ StoredQuiz(cs[i], r.slot) # Null}
    IN  [r \in refs |->
            LET i == CHOOSE i \in 1 .. Len(cs) :
                        cs[i].id = r.cid /\ StoredQuiz(cs[i], r.slot) # Null
            IN  StoredQuiz(cs[i], r.slot)]

\* The two save effects, run after the render that follows the handler:
\* the effect on [courses] runs when setCourses was called (setC), the one on
\* [learningPaths] when setLearningPaths was called (setP).
SaveEffects(setC, setP) ==
    localStorage' =
        [localStorage EXCEPT
            ![COURSES_STORAGE_KEY] =
                IF setC THEN [json |-> StringifyCourses(courses', quizObj')] ELSE @,
            ![PATHS_STORAGE_KEY] =
                IF setP THEN [json |-> StringifyPaths(learningPaths', quizObj')]
                ELSE @]

\* ------------------------------------------------------------- accounts
\* USERS_DB_KEY and CURRENT_USER_KEY of the auth hook
USERS_DB_KEY == [store |-> "quanta_users_db"]
CURRENT_USER_KEY == [store |-> "quanta_user"]
AuthKeys == {USERS_DB_KEY, CURRENT_USER_KEY}

\* What the forms of AuthPage and ProfileView can hold: an email field left
\* empty or filled, passwords and names (filled).
Emails == {"a", "b"}
EmailInputs == Emails \cup {""}
Passwords == {"p", "q"}
Names == {"n", "m"}

\* JSON.parse(localStorage.getItem(USERS_DB_KEY) || '[]')
UsersDb ==
    IF localStorage[USERS_DB_KEY] = Null THEN <<>>
    ELSE localStorage[USERS_DB_KEY].json

\* const { password, ...userToStore } = foundUser
WithoutPassword(u) ==
    [id |-> u.id, email |-> u.email, name |-> u.name, apiKey |-> u.apiKey]

\* { ...u, password }
WithPassword(u, password) ==
    [id |-> u.id, email |-> u.email, name |-> u.name, apiKey |-> u.apiKey,
     password |-> password]

\* EmailTaken with the database never looked at.
EmailTakenNever(db, email) == FALSE

\* db.find(u => u.email === email) finds an account
EmailTaken(db, email) == \E i \in 1 .. Len(db) : db[i].email = email

\* updateUser({name, ..., apiKey}) of the auth hook, called with a user
\* logged in: the merged user is stored as the current user and, if the
\* database holds an account of the user's id, in that account, whose
\* password is kept.
updateUser(name, key) ==
    LET updatedUser == [user EXCEPT !.name = name, !.apiKey = key]
        db == UsersDb
        found == {i \in 1 .. Len(db) : db[i].id = user.id}
        userIndex == IF found = {} THEN -1
                     ELSE CHOOSE i \in found : \A j \in found : i <= j
    IN  /\ user' = updatedUser
        /\ localStorage' =
             [localStorage EXCEPT
                ![CURRENT_USER_KEY] = [json |-> updatedUser],
                ![USERS_DB_KEY] =
                    IF userIndex > -1
                    THEN [json |-> [db EXCEPT ![userIndex] =
                            WithPassword(updatedUser, db[userIndex].password)]]
                    ELSE @]

\* The state after MainApp is mounted with an empty snapshot, for a user who
\* has stored an API key or has not yet.
Init ==
    /\ courses = <<>>
    /\ learningPaths = <<>>
    /\ activePath = Null
    /\ activeCourse = Null
    /\ activeModule = Null
    /\ view = "dashboard"
    /\ loading = FALSE
    /\ error = FALSE
    /\ quizScore = [score |-> 0, total |-> 0]
    /\ mockTestScore = [score |-> 0, total |-> 0]
    /\ quizObj = << >>
    /\ pending = {}
    /\ clock = 0
    /\ apiKey \in BOOLEAN
    /\ user = [id |-> UserId, email |-> "a", name |-> "n", apiKey |-> apiKey]
    /\ authError = ""
    /\ localStorage = [k \in StorageKeys \cup AuthKeys |->
            IF k = USERS_DB_KEY THEN [json |-> << WithPassword(user, "p") >>]
            ELSE IF k = CURRENT_USER_KEY THEN [json |-> user]
            ELSE IF k.user = UserId THEN [json |-> <<>>] ELSE Null]
    /\ mounts = 1
    /\ session \in Sessions

\* ------------------------------------------------------------ new entities
\* A module as handleCreateCourse / handleCreateLearningPath build it.
\* title and objective never change and decide nothing; they are left out.
NewModule ==
    [isCompleted |-> FALSE, generationState |-> LOCKED, quizAttempts |-> 0,
     quizScore |-> Undef, content |-> FALSE, quiz |-> Null]

\* A course: id, title, isCompleted, modules, unlockedModuleIndex, and the
\* optional mockTest, mockTestState, mockTestScore, badge (absent at creation).
NewCourse(id, title, n) ==
    [id |-> id, title |-> title, isCompleted |-> FALSE,
     modules |-> [k \in 1 .. n |-> NewModule], unlockedModuleIndex |-> 0,
     mockTest |-> Null, mockTestState |-> NoState, mockTestScore |-> Undef,
     badge |-> Null]

\* new Date().toISOString() [+ title]: the millisecond read and the suffix.
\* The ISO string has a fixed length, so the concatenation is injective.
Id(t, suffix) == [t |-> t, title |-> suffix]

\* -------------------------------------------------------------- rendering
\* Every course held in memory: the standalone ones, then the paths' copies.
RECURSIVE PathCourses(_)
PathCourses(paths) ==
    IF paths = <<>> THEN <<>> ELSE Head(paths).courses \o PathCourses(Tail(paths))

AllCourses == courses \o PathCourses(learningPaths)

AllModulesCompleted(c) == \A k \in 1 .. Len(c.modules) : c.modules[k].isCompleted

\* HasKey with the credential never looked at.
HasKeyUnchecked == TRUE

\* user.apiKey is truthy (the test of the handlers and of MainApp's render)
HasKey == apiKey

\* MainApp's render and renderContent: which component fills the main area
\* (without a key ApiKeySetup replaces the whole application).
Screen ==
    IF ~HasKey THEN "api-key-setup"
    ELSE IF loading \/ view = "loading" THEN "loader"
    ELSE IF error THEN "error"
    ELSE CASE view = "path" -> IF activePath # Null THEN "path" ELSE "dashboard"
           [] view = "course" -> IF activeCourse # Null THEN "course" ELSE "dashboard"
           [] view = "module" -> IF activeModule # Null THEN "module" ELSE "dashboard"
           [] view = "quiz" ->
                IF activeModule # Null /\ activeModule.module.quiz # Null
                THEN "quiz" ELSE "dashboard"
           [] view = "quiz_answers" ->
                IF activeModule # Null /\ activeModule.module.quiz # Null
                THEN "quiz_answers" ELSE "dashboard"
           [] view = "mock_test" ->
                IF activeCourse # Null /\ activeCourse.mockTest # Null
                THEN "mock_test" ELSE "dashboard"
           [] OTHER -> view

CourseViews ==
    {"course", "module", "quiz", "quiz_results", "quiz_answers", "mock_test",
     "mock_test_results"}

\* setAppView(newView), called after the handler has set the active course,
\* module and path to ac, am and ap (the state setters of one handler are
\* applied together, the last call on each winning).
SetAppView(newView, ac, am, ap) ==
    /\ activeCourse' = IF newView \in CourseViews THEN ac ELSE Null
    /\ activeModule' = IF newView \in CourseViews THEN am ELSE Null
    /\ activePath' = IF newView # "path" THEN Null ELSE ap
    /\ view' = newView

Stores == << courses, learningPaths, quizObj, pending, clock, localStorage >>
Flags == << loading, error, quizScore, mockTestScore >>

\* ------------------------------------------------------------- navigation
\* Sidebar.handleCourseClick
SidebarCourseClick ==
    \E i \in Idx(courses) :
        /\ HasKey
        /\ SetAppView("course", At(courses, i), activeModule, Null)
        /\ UNCHANGED << session, mounts, Auth, apiKey, Stores, Flags >>

\* Sidebar.handlePathClick
SidebarPathClick ==
    \E j \in Idx(learningPaths) :
        /\ HasKey
        /\ SetAppView("path", Null, activeModule, At(learningPaths, j))
        /\ UNCHANGED << session, mounts, Auth, apiKey, Stores, Flags >>

\* Sidebar.handleDashboardClick
SidebarDashboardClick ==
    /\ HasKey
    /\ SetAppView("dashboard", Null, activeModule, Null)
    /\ UNCHANGED << session, mounts, Auth, apiKey, Stores, Flags >>

\* Sidebar: the "+ New Course" button
SidebarNewCourse ==
    /\ HasKey
    /\ SetAppView("create-hub", activeCourse, activeModule, activePath)
    /\ UNCHANGED << session, mounts, Auth, apiKey, Stores, Flags >>

\* ProfileDropdown: "My Profile"
HeaderProfile ==
    /\ HasKey
    /\ SetAppView("profile", activeCourse, activeModule, activePath)
    /\ UNCHANGED << session, mounts, Auth, apiKey, Stores, Flags >>

\* Breadcrumbs.handleDashboardClick
BreadcrumbsDashboardClick ==
    /\ HasKey
    /\ SetAppView("dashboard", Null, activeModule, Null)
    /\ UNCHANGED << session, mounts, Auth, apiKey, Stores, Flags >>

\* Breadcrumbs.handlePathClick (the link is rendered when a path is active)
BreadcrumbsPathClick ==
    /\ HasKey
    /\ view # "profile"
    /\ activePath # Null
    /\ SetAppView("path", Null, activeModule, activePath)
    /\ UNCHANGED << session, mounts, Auth, apiKey, Stores, Flags >>

\* Breadcrumbs.handleCourseClick (rendered when a course is active)
BreadcrumbsCourseClick ==
    /\ HasKey
    /\ view # "profile"
    /\ activeCourse # Null
    /\ SetAppView("course", activeCourse, activeModule, activePath)
    /\ UNCHANGED << session, mounts, Auth, apiKey, Stores, Flags >>

\* Dashboard: click on a learning path card
DashboardPathClick ==
    /\ Screen = "dashboard"
    /\ \E j \in Idx(learningPaths) :
        SetAppView("path", activeCourse, activeModule, At(learningPaths, j))
    /\ UNCHANGED << session, mounts, Auth, apiKey, Stores, Flags >>

\* Dashboard: click on a course card
DashboardCourseClick ==
    /\ Screen = "dashboard"
    /\ \E i \in Idx(courses) :
        SetAppView("course", At(courses, i), activeModule, activePath)
    /\ UNCHANGED << session, mounts, Auth, apiKey, Stores, Flags >>

\* CreationHub: one of the three cards
CreationHubSelect ==
    /\ Screen = "create-hub"
    /\ \E v \in {"create-topic", "create-document", "create-path"} :
        SetAppView(v, activeCourse, activeModule, activePath)
    /\ UNCHANGED << session, mounts, Auth, apiKey, Stores, Flags >>

\* TopicCreator / DocumentCreator / PathCreator: "Back to Creation Hub"
CreatorBack ==
    /\ Screen \in {"create-topic", "create-document", "create-path"}
    /\ SetAppView("create-hub", activeCourse, activeModule, activePath)
    /\ UNCHANGED << session, mounts, Auth, apiKey, Stores, Flags >>

\* PathView.handleCourseClick
PathViewCourseClick ==
    /\ Screen = "path"
    /\ \E k \in Idx(activePath.courses) :
        /\ k <= activePath.unlockedCourseIndex
        /\ SetAppView("course", At(activePath.courses, k), activeModule, activePath)
    /\ UNCHANGED << session, mounts, Auth, apiKey, Stores, Flags >>

\* CourseView: click on a module row (setViewAndActiveModule, then setView)
CourseViewModuleClick ==
    /\ Screen = "course"
    /\ \E i \in Idx(activeCourse.modules) :
        /\ At(activeCourse.modules, i).generationState = READY
        /\ SetAppView("module", activeCourse,
                      [module |-> At(activeCourse.modules, i), index |-> i],
                      activePath)
    /\ UNCHANGED << session, mounts, Auth, apiKey, Stores, Flags >>

\* CourseView: "Start Mock Test"
CourseViewStartMockTest ==
    /\ Screen = "course"
    /\ AllModulesCompleted(activeCourse)
    /\ activeCourse.mockTestState \notin {GENERATING, FAILED}
    /\ activeCourse.mockTest # Null
    /\ SetAppView("mock_test", activeCourse, activeModule, activePath)
    /\ UNCHANGED << session, mounts, Auth, apiKey, Stores, Flags >>

\* ModuleView: "Take the quiz"
ModuleViewTakeQuiz ==
    /\ Screen = "module"
    /\ SetAppView("quiz", activeCourse, activeModule, activePath)
    /\ UNCHANGED << session, mounts, Auth, apiKey, Stores, Flags >>

\* QuizResultsView / QuizAnswersView / MockTestResultsView: "Back to ..."
\* setView(isPath ? 'path' : 'course') with isPath = !!activePath
ResultsBack ==
    /\ Screen \in {"quiz_results", "quiz_answers", "mock_test_results"}
    /\ SetAppView(IF activePath # Null THEN "path" ELSE "course",
                  activeCourse, activeModule, activePath)
    /\ UNCHANGED << session, mounts, Auth, apiKey, Stores, Flags >>

\* ------------------------------------------------- course and path creation
Nav == << activePath, activeCourse, activeModule, view >>

\* TopicCreator.handleSubmit / DocumentCreator.handleSubmit with an input:
\* handleCreateCourse up to its await.
CreateCourseRequest ==
    /\ Screen \in {"create-topic", "create-document"}
    /\ IF ~HasKey
       THEN /\ error' = TRUE
            /\ view' = "profile"
            /\ UNCHANGED << loading, pending >>
       ELSE /\ Len(courses) + Len(learningPaths) < CoursesAllowed
            /\ loading' = TRUE
            /\ error' = FALSE
            /\ view' = "loading"
            /\ pending' = pending \cup {[kind |-> "course"]}
    /\ UNCHANGED << session, mounts, Auth, apiKey, localStorage, courses, learningPaths, quizObj, clock, activePath,
                    activeCourse, activeModule, quizScore, mockTestScore >>

\* handleCreateCourse after generateCourseOutline resolved.
CreateCourseResolve ==
    /\ [kind |-> "course"] \in pending
    /\ \E n \in 1 .. MaxModules :
        LET newCourse == NewCourse(Id(clock + 1, ""), Titles[Len(courses) + 1], n) IN
        /\ courses' = Append(courses, newCourse)
        /\ activeCourse' = newCourse
    /\ view' = "course"
    /\ loading' = FALSE
    /\ clock' = clock + 1
    /\ pending' = pending \ {[kind |-> "course"]}
    /\ UNCHANGED << session, mounts, Auth, apiKey, learningPaths, quizObj, activePath, activeModule, error,
                    quizScore, mockTestScore >>
    /\ SaveEffects(TRUE, FALSE)

\* handleCreateCourse after generateCourseOutline rejected.
CreateCourseReject ==
    /\ [kind |-> "course"] \in pending
    /\ error' = TRUE
    /\ view' = "create-topic"
    /\ loading' = FALSE
    /\ pending' = pending \ {[kind |-> "course"]}
    /\ UNCHANGED << session, mounts, Auth, apiKey, localStorage, courses, learningPaths, quizObj, clock, activePath,
                    activeCourse, activeModule, quizScore, mockTestScore >>

\* PathCreator.handleSubmit with a goal: handleCreateLearningPath up to its await.
CreatePathRequest ==
    /\ Screen = "create-path"
    /\ IF ~HasKey
       THEN /\ error' = TRUE
            /\ view' = "profile"
            /\ UNCHANGED << loading, pending >>
       ELSE /\ Len(courses) + Len(learningPaths) < PathsAllowed
            /\ loading' = TRUE
            /\ error' = FALSE
            /\ view' = "loading"
            /\ pending' = pending \cup {[kind |-> "path"]}
    /\ UNCHANGED << session, mounts, Auth, apiKey, localStorage, courses, learningPaths, quizObj, clock, activePath,
                    activeCourse, activeModule, quizScore, mockTestScore >>

\* handleCreateLearningPath after generateLearningPathOutline resolved. The
\* new Date() calls of the map run within the millisecond of the first.
CreatePathResolve ==
    /\ [kind |-> "path"] \in pending
    /\ \E k \in 1 .. MaxPathCourses :
        \E titles \in [1 .. k -> PathTitles], n \in 1 .. MaxModules :
            LET newPath ==
                    [id |-> Id(clock + 1, ""), unlockedCourseIndex |-> 0,
                     courses |-> [c \in 1 .. k |->
                         NewCourse(Id(clock + 1, titles[c]), titles[c], n)]]
            IN  /\ titles[1] = Titles[1]
                /\ learningPaths' = Append(learningPaths, newPath)
                /\ activePath' = newPath
    /\ view' = "path"
    /\ loading' = FALSE
    /\ clock' = clock + 1
    /\ pending' = pending \ {[kind |-> "path"]}
    /\ UNCHANGED << session, mounts, Auth, apiKey, courses, quizObj, activeCourse, activeModule, error,
                    quizScore, mockTestScore >>
    /\ SaveEffects(FALSE, TRUE)

\* handleCreateLearningPath after generateLearningPathOutline rejected.
CreatePathReject ==
    /\ [kind |-> "path"] \in pending
    /\ error' = TRUE
    /\ view' = "create-path"
    /\ loading' = FALSE
    /\ pending' = pending \ {[kind |-> "path"]}
    /\ UNCHANGED << session, mounts, Auth, apiKey, localStorage, courses, learningPaths, quizObj, clock, activePath,
                    activeCourse, activeModule, quizScore, mockTestScore >>

\* TopicCreator / PathCreator / DocumentCreator.handleSubmit with no input.
CreatorSubmitEmpty ==
    /\ Screen \in {"create-topic", "create-document", "create-path"}
    /\ error' = TRUE
    /\ UNCHANGED << session, mounts, Auth, apiKey, Stores, Nav, loading, quizScore, mockTestScore >>

\* ------------------------------------------------------------ the API key
\* ProfileView.handleSave: updateUser with the key field as it was typed
\* (empty or not), the name field left as it was.
ProfileSave ==
    /\ Screen = "profile"
    /\ apiKey' \in BOOLEAN
    /\ updateUser(user.name, apiKey')
    /\ UNCHANGED << session, mounts, authError, courses, learningPaths, quizObj,
                    pending, clock, Nav, Flags >>

\* ApiKeySetup.handleSaveKey with a non-blank input, and its timer.
ApiKeySetupSave ==
    /\ Screen = "api-key-setup"
    /\ apiKey' = TRUE
    /\ updateUser(user.name, TRUE)
    /\ UNCHANGED << session, mounts, authError, courses, learningPaths, quizObj,
                    pending, clock, Nav, Flags >>

\* ----------------------------------------------------- module generation
\* updatedModules[moduleIndex] = { ...updatedModules[moduleIndex],
\*                                 generationState: state, content, quiz }
\* (an index past the end appends an object that has these three fields only)
SetModuleState(c, index, state, content, quiz) ==
    IF index < Len(c.modules)
    THEN [c EXCEPT !.modules[index + 1] =
            [@ EXCEPT !.generationState = state, !.content = content, !.quiz = quiz]]
    ELSE [c EXCEPT !.modules = Append(@,
            [NewModule EXCEPT !.generationState = state, !.content = content,
                              !.quiz = quiz])]

\* ------------------------------------------------ updates keyed by course id
\* NewBadge with the badge awarded at the pass mark of the mock test.
NewBadgeOnPass(title, percentage, date) ==
    IF percentage >= MockPassMark
    THEN [courseTitle |-> title, score |-> percentage, dateAwarded |-> date]
    ELSE Null

\* newBadge of handleMockTestSubmit: Null when no badge is awarded
NewBadge(title, percentage, date) ==
    IF percentage >= MockPassMark /\ percentage >= BadgeMark
    THEN [courseTitle |-> title, score |-> percentage, dateAwarded |-> date]
    ELSE Null

\* courseUpdater of handleMockTestSubmit
MockGradeCourse(c, percentage, newBadge) ==
    [c EXCEPT !.mockTestScore = percentage,
              !.badge = IF newBadge # Null THEN newBadge ELSE @]

\* What a courseUpdater does to the course whose id matches; u says which
\* updater it is and holds the values its closure captured.
ApplyUpdate(c, u) ==
    CASE u.kind = "module" ->
            SetModuleState(c, u.index, u.state, u.content, u.quiz)
      [] u.kind = "mockState" -> [c EXCEPT !.mockTestState = u.state]
      [] u.kind = "mockTest" -> [c EXCEPT !.mockTest = u.quiz, !.mockTestState = READY]
      [] u.kind = "mockGrade" -> MockGradeCourse(c, u.percentage, u.newBadge)

\* ModuleUpdate with the quiz left out of the stored module.
ModuleUpdateNoQuiz(index, state, content, quiz) ==
    [kind |-> "module", index |-> index, state |-> state, content |-> content,
     quiz |-> Null]

ModuleUpdate(index, state, content, quiz) ==
    [kind |-> "module", index |-> index, state |-> state, content |-> content,
     quiz |-> quiz]

\* prev.map(courseUpdater) on the courses and on the courses of every path;
\* courseUpdater calls setActiveCourse on each course it changes, so the last
\* course changed becomes the active course.  Both setters are called, so
\* both save effects run after it.
Matches(cid) == SelectSeq(AllCourses, LAMBDA c : c.id = cid)

UpdateById(cid, u) ==
    /\ courses' = [k \in 1 .. Len(courses) |->
                      IF courses[k].id = cid THEN ApplyUpdate(courses[k], u)
                      ELSE courses[k]]
    /\ learningPaths' =
         [j \in 1 .. Len(learningPaths) |->
             LET cs == learningPaths[j].courses IN
             [learningPaths[j] EXCEPT !.courses =
                 [k \in 1 .. Len(cs) |->
                     IF cs[k].id = cid THEN ApplyUpdate(cs[k], u) ELSE cs[k]]]]
    /\ activeCourse' =
         LET m == Matches(cid) IN
         IF m = <<>> THEN activeCourse ELSE ApplyUpdate(m[Len(m)], u)

\* CanGenerateModule with the button also shown on a module that is READY.
CanGenerateModuleReady(c, i) ==
    /\ i = c.unlockedModuleIndex
    /\ ~At(c.modules, i).isCompleted
    /\ At(c.modules, i).generationState # GENERATING

\* CanGenerateModule with the button also shown while the module is GENERATING.
CanGenerateModuleAgain(c, i) ==
    /\ i = c.unlockedModuleIndex
    /\ ~At(c.modules, i).isCompleted
    /\ At(c.modules, i).generationState # READY

\* CourseView: the "Generate Module" button and the retry button, shown for
\* the module at the frontier that is not completed and neither READY nor
\* GENERATING.
CanGenerateModule(c, i) ==
    /\ i = c.unlockedModuleIndex
    /\ ~At(c.modules, i).isCompleted
    /\ At(c.modules, i).generationState \notin {READY, GENERATING}

\* handleGenerateModule(moduleIndex) up to its await; without an active
\* course or without a key it returns at once (no step).
GenerateModuleRequest ==
    /\ Screen = "course"
    /\ HasKey
    /\ \E i \in Idx(activeCourse.modules) :
        /\ CanGenerateModule(activeCourse, i)
        /\ UpdateById(activeCourse.id, ModuleUpdate(i, GENERATING, FALSE, Null))
        /\ pending' = pending \cup
               {[kind |-> "module", cid |-> activeCourse.id, index |-> i]}
    /\ UNCHANGED << session, mounts, Auth, apiKey, quizObj, clock, activePath, activeModule, view, Flags >>
    /\ SaveEffects(TRUE, TRUE)

\* handleGenerateModule after generateModuleContentAndQuiz resolved; the quiz
\* is a new object.
GenerateModuleResolve ==
    \E r \in pending :
        /\ r.kind = "module"
        /\ LET ref == [cid |-> r.cid, slot |-> r.index] IN
            /\ quizObj' = [x \in DOMAIN quizObj \cup {ref} |->
                              IF x = ref THEN ModuleQuiz ELSE quizObj[x]]
            /\ UpdateById(r.cid, ModuleUpdate(r.index, READY, TRUE, ref))
        /\ pending' = pending \ {r}
        /\ UNCHANGED << session, mounts, Auth, apiKey, clock, activePath, activeModule, view, Flags >>
        /\ SaveEffects(TRUE, TRUE)

\* handleGenerateModule after generateModuleContentAndQuiz rejected.
GenerateModuleReject ==
    \E r \in pending :
        /\ r.kind = "module"
        /\ UpdateById(r.cid, ModuleUpdate(r.index, FAILED, FALSE, Null))
        /\ pending' = pending \ {r}
        /\ UNCHANGED << session, mounts, Auth, apiKey, quizObj, clock, activePath, activeModule, view, Flags >>
        /\ SaveEffects(TRUE, TRUE)

\* ------------------------------------------------------------ quiz grading
\* GradeCourse with the course marked completed as soon as the graded module
\* passes, the other modules not looked at.
GradeCourseEager(c, index, percentage) ==
    LET pass == percentage >= ModulePassMark IN
    [c EXCEPT !.modules =
                [k \in 1 .. Len(c.modules) |->
                    IF k - 1 # index THEN c.modules[k]
                    ELSE IF pass
                         THEN [c.modules[k] EXCEPT !.isCompleted = TRUE,
                                                   !.quizScore = percentage,
                                                   !.quizAttempts = 0]
                         ELSE [c.modules[k] EXCEPT !.quizAttempts = @ + 1]],
              !.unlockedModuleIndex =
                IF pass /\ c.unlockedModuleIndex = index THEN @ + 1 ELSE @,
              !.isCompleted = IF pass THEN TRUE ELSE @]

\* GradeCourse with a failing submission writing isCompleted = false.
GradeCourseClearing(c, index, percentage) ==
    LET pass == percentage >= ModulePassMark
        updatedModules ==
            [k \in 1 .. Len(c.modules) |->
                IF k - 1 # index THEN c.modules[k]
                ELSE IF pass
                     THEN [c.modules[k] EXCEPT !.isCompleted = TRUE,
                                               !.quizScore = percentage,
                                               !.quizAttempts = 0]
                     ELSE [c.modules[k] EXCEPT !.isCompleted = FALSE,
                                               !.quizAttempts = @ + 1]]
    IN  [c EXCEPT !.modules = updatedModules,
                  !.unlockedModuleIndex =
                    IF pass /\ c.unlockedModuleIndex = index THEN @ + 1 ELSE @,
                  !.isCompleted =
                    IF \A k \in 1 .. Len(updatedModules) : updatedModules[k].isCompleted
                    THEN TRUE ELSE @]

\* GradeCourse with the module of a failed submission written as a new
\* object that holds the three graded fields only (the module's other fields
\* are not carried over).
GradeCourseOverwriting(c, index, percentage) ==
    LET updatedModules ==
            IF percentage >= ModulePassMark
            THEN [k \in 1 .. Len(c.modules) |->
                    IF k - 1 = index
                    THEN [c.modules[k] EXCEPT !.isCompleted = TRUE,
                                              !.quizScore = percentage,
                                              !.quizAttempts = 0]
                    ELSE c.modules[k]]
            ELSE [k \in 1 .. Len(c.modules) |->
                    IF k - 1 = index
                    THEN [NewModule EXCEPT
                            !.isCompleted = c.modules[k].isCompleted,
                            !.quizScore = c.modules[k].quizScore,
                            !.quizAttempts = c.modules[k].quizAttempts + 1]
                    ELSE c.modules[k]]
        newUnlockedIndex ==
            IF percentage >= ModulePassMark /\ c.unlockedModuleIndex = index
            THEN c.unlockedModuleIndex + 1
            ELSE c.unlockedModuleIndex
        isCourseComplete ==
            \A k \in 1 .. Len(updatedModules) : updatedModules[k].isCompleted
    IN  [c EXCEPT !.modules = updatedModules,
                  !.unlockedModuleIndex = newUnlockedIndex,
                  !.isCompleted = IF isCourseComplete THEN TRUE ELSE @]

\* courseUpdater of handleQuizSubmit, for a course whose id is the active
\* course's: index is activeModule.index.
GradeCourse(c, index, percentage) ==
    LET updatedModules ==
            IF percentage >= ModulePassMark
            THEN [k \in 1 .. Len(c.modules) |->
                    IF k - 1 = index
                    THEN [c.modules[k] EXCEPT !.isCompleted = TRUE,
                                              !.quizScore = percentage,
                                              !.quizAttempts = 0]
                    ELSE c.modules[k]]
            ELSE [k \in 1 .. Len(c.modules) |->
                    IF k - 1 = index
                    THEN [c.modules[k] EXCEPT !.quizAttempts = @ + 1]
                    ELSE c.modules[k]]
        newUnlockedIndex ==
            IF percentage >= ModulePassMark /\ c.unlockedModuleIndex = index
            THEN c.unlockedModuleIndex + 1
            ELSE c.unlockedModuleIndex
        isCourseComplete ==
            \A k \in 1 .. Len(updatedModules) : updatedModules[k].isCompleted
    IN  [c EXCEPT !.modules = updatedModules,
                  !.unlockedModuleIndex = newUnlockedIndex,
                  !.isCompleted = IF isCourseComplete THEN TRUE ELSE @]

\* the updater handleQuizSubmit gives to setLearningPaths, for the path whose
\* id is the active path's
GradePath(p, cid, index, percentage) ==
    LET updatedPathCourses ==
            [k \in 1 .. Len(p.courses) |->
                IF p.courses[k].id # cid THEN p.courses[k]
                ELSE GradeCourse(p.courses[k], index, percentage)]
        found == {k \in 1 .. Len(updatedPathCourses) : updatedPathCourses[k].id = cid}
        \* findIndex: the first match, -1 when there is none
        currentCourseIndex ==
            IF found = {} THEN -1
            ELSE (CHOOSE k \in found : \A l \in found : k <= l) - 1
        newUnlockedCourseIndex ==
            IF /\ currentCourseIndex # -1
               /\ At(updatedPathCourses, currentCourseIndex).isCompleted
               /\ currentCourseIndex = p.unlockedCourseIndex
            THEN p.unlockedCourseIndex + 1
            ELSE p.unlockedCourseIndex
    IN  [p EXCEPT !.courses = updatedPathCourses,
                  !.unlockedCourseIndex = newUnlockedCourseIndex]

\* the sheets of a session
Submitted(quiz, sheets) ==
    IF session = "one" THEN sheets
    ELSE {a \in sheets : Score(quiz, a) = Len(quiz)}

\* the scores the submitted answer sheets obtain on a quiz
Outcomes(quiz, sheets) == {Score(quiz, a) : a \in sheets}

\* the quiz QuizView shows in the view 'quiz'
ActiveQuiz == quizObj[activeModule.module.quiz]

\* handleQuizSubmit(answers), answers being one of sheets.
\* With no active course the handler returns at once (no step).
QuizSubmit(sheets) ==
    /\ Screen = "quiz"
    /\ activeCourse # Null
    /\ LET ref == activeModule.module.quiz
           quiz == quizObj[ref]
           cid == activeCourse.id
           index == activeModule.index
           graded == IF activePath = Null THEN <<>>
                     ELSE SelectSeq(learningPaths, LAMBDA p : p.id = activePath.id)
           changed == SelectSeq(courses \o PathCourses(graded), LAMBDA c : c.id = cid)
       IN  \E score \in Outcomes(quiz, sheets) :
            LET percentage == Percentage(score, Len(quiz)) IN
            /\ percentage < ModulePassMark =>
                 \A k \in 1 .. Len(changed) :
                    index < Len(changed[k].modules) =>
                        At(changed[k].modules, index).quizAttempts < MaxAttempts
            /\ quizObj' = [quizObj EXCEPT ![ref] = SortedQuiz(quiz)]
            /\ quizScore' = [score |-> score, total |-> Len(quiz)]
            /\ courses' = [k \in 1 .. Len(courses) |->
                   IF courses[k].id # cid THEN courses[k]
                   ELSE GradeCourse(courses[k], index, percentage)]
            /\ learningPaths' =
                 IF activePath = Null THEN learningPaths
                 ELSE [j \in 1 .. Len(learningPaths) |->
                        IF learningPaths[j].id # activePath.id THEN learningPaths[j]
                        ELSE GradePath(learningPaths[j], cid, index, percentage)]
            /\ activePath' =
                 IF graded = <<>> THEN activePath
                 ELSE GradePath(graded[Len(graded)], cid, index, percentage)
            /\ activeCourse' =
                 IF changed = <<>> THEN activeCourse
                 ELSE GradeCourse(changed[Len(changed)], index, percentage)
    /\ view' = "quiz_results"
    /\ UNCHANGED << session, mounts, Auth, apiKey, activeModule, loading, error, mockTestScore, pending, clock >>
    /\ SaveEffects(TRUE, activePath # Null)

\* QuizView "Submit Answers" of a module quiz
handleQuizSubmit == QuizSubmit(Submitted(ActiveQuiz, ModuleSheets))

\* QuizResultsView: "Show Correct Answers" (onShowAnswers), offered when the
\* displayed result is a fail and attempts >= 3.
ShowAnswersOffered ==
    /\ Screen = "quiz_results"
    /\ quizScore.total > 0
    /\ Percentage(quizScore.score, quizScore.total) < ModulePassMark
    /\ (IF activeModule = Null THEN 0 ELSE activeModule.module.quizAttempts) >= 3

onShowAnswers ==
    /\ ShowAnswersOffered
    /\ view' = "quiz_answers"
    /\ UNCHANGED << session, mounts, Auth, apiKey, Stores, Flags, activePath, activeCourse, activeModule >>

\* CanGenerateMockTest with the generation also offered once the test is READY.
CanGenerateMockTestAny(c) ==
    /\ AllModulesCompleted(c)
    /\ c.mockTestState # GENERATING

\* CanGenerateMockTest with the final assessment shown before every module
\* is completed.
CanGenerateMockTestEarly(c) ==
    /\ c.mockTestState # GENERATING
    /\ c.mockTestState = FAILED \/ c.mockTest = Null

\* --------------------------------------------------------------- mock test
\* CourseView: "Generate Mock Test" and "Generation Failed. Retry?"
CanGenerateMockTest(c) ==
    /\ AllModulesCompleted(c)
    /\ c.mockTestState # GENERATING
    /\ c.mockTestState = FAILED \/ c.mockTest = Null

\* handleGenerateMockTest up to its await; without an active course or
\* without a key it returns at once (no step).
GenerateMockTestRequest ==
    /\ Screen = "course"
    /\ HasKey
    /\ CanGenerateMockTest(activeCourse)
    /\ UpdateById(activeCourse.id, [kind |-> "mockState", state |-> GENERATING])
    /\ pending' = pending \cup {[kind |-> "mock", cid |-> activeCourse.id]}
    /\ UNCHANGED << session, mounts, Auth, apiKey, quizObj, clock, activePath, activeModule, view, Flags >>
    /\ SaveEffects(TRUE, TRUE)

\* handleGenerateMockTest after generateMockTest resolved.
GenerateMockTestResolve ==
    \E r \in pending :
        /\ r.kind = "mock"
        /\ LET ref == [cid |-> r.cid, slot |-> -1] IN
            /\ quizObj' = [x \in DOMAIN quizObj \cup {ref} |->
                              IF x = ref THEN MockQuiz ELSE quizObj[x]]
            /\ UpdateById(r.cid, [kind |-> "mockTest", quiz |-> ref])
        /\ pending' = pending \ {r}
        /\ UNCHANGED << session, mounts, Auth, apiKey, clock, activePath, activeModule, view, Flags >>
        /\ SaveEffects(TRUE, TRUE)

\* handleGenerateMockTest after generateMockTest rejected.
GenerateMockTestReject ==
    \E r \in pending :
        /\ r.kind = "mock"
        /\ UpdateById(r.cid, [kind |-> "mockState", state |-> FAILED])
        /\ pending' = pending \ {r}
        /\ UNCHANGED << session, mounts, Auth, apiKey, quizObj, clock, activePath, activeModule, view, Flags >>
        /\ SaveEffects(TRUE, TRUE)

\* the quiz QuizView shows in the view 'mock_test'
ActiveMockTest == quizObj[activeCourse.mockTest]

\* handleMockTestSubmit(answers), answers being one of sheets.
MockTestSubmit(sheets) ==
    /\ Screen = "mock_test"
    /\ LET ref == activeCourse.mockTest
           quiz == quizObj[ref]
       IN  \E score \in Outcomes(quiz, sheets) :
            LET percentage == Percentage(score, Len(quiz))
                newBadge == NewBadge(activeCourse.title, percentage, clock)
            IN  /\ quizObj' = [quizObj EXCEPT ![ref] = SortedQuiz(quiz)]
                /\ mockTestScore' = [score |-> score, total |-> Len(quiz)]
                /\ UpdateById(activeCourse.id,
                              [kind |-> "mockGrade", percentage |-> percentage,
                               newBadge |-> newBadge])
    /\ view' = "mock_test_results"
    /\ UNCHANGED << session, mounts, Auth, apiKey, activePath, activeModule, loading, error, quizScore, pending,
                    clock >>
    /\ SaveEffects(TRUE, TRUE)

\* QuizView "Submit Answers" of the mock test
handleMockTestSubmit == MockTestSubmit(Submitted(ActiveMockTest, MockSheets))

\* ------------------------------------------------------- a later session
\* MainApp is mounted again (the page is reloaded, or the user logs out and
\* in): every useState starts from its initial value, the load effect reads
\* the two snapshots of the user, and the save effects run on what was read.
\* The gateway calls of the former mount can no longer change anything.
\* (Two stored courses of one id get one quiz object here; they hold equal
\* quizzes, and only the first course of a path can be opened.)
MainAppMount ==
    /\ session = "one"
    /\ mounts < MaxMounts
    /\ mounts' = mounts + 1
    /\ LET storedCourses == localStorage[COURSES_STORAGE_KEY]
           storedPaths == localStorage[PATHS_STORAGE_KEY]
           cs == IF storedCourses = Null THEN <<>> ELSE storedCourses.json
           ps == IF storedPaths = Null THEN <<>> ELSE storedPaths.json
       IN  /\ courses' = ParseCourses(cs)
           /\ learningPaths' = ParsePaths(ps)
           /\ quizObj' = ParsedQuizzes(cs \o PathCourses(ps))
    /\ activePath' = Null
    /\ activeCourse' = Null
    /\ activeModule' = Null
    /\ view' = "dashboard"
    /\ loading' = FALSE
    /\ error' = FALSE
    /\ quizScore' = [score |-> 0, total |-> 0]
    /\ mockTestScore' = [score |-> 0, total |-> 0]
    /\ pending' = {}
    /\ SaveEffects(TRUE, TRUE)
    /\ UNCHANGED << session, apiKey, clock, Auth >>

\* ---------------------------------------------------------- specification
Next ==
    \/ SidebarCourseClick
    \/ SidebarPathClick
    \/ SidebarDashboardClick
    \/ SidebarNewCourse
    \/ HeaderProfile
    \/ BreadcrumbsDashboardClick
    \/ BreadcrumbsPathClick
    \/ BreadcrumbsCourseClick
    \/ DashboardPathClick
    \/ DashboardCourseClick
    \/ CreationHubSelect
    \/ CreatorBack
    \/ PathViewCourseClick
    \/ CourseViewModuleClick
    \/ CourseViewStartMockTest
    \/ ModuleViewTakeQuiz
    \/ ResultsBack
    \/ CreateCourseRequest
    \/ CreateCourseResolve
    \/ CreateCourseReject
    \/ CreatePathRequest
    \/ CreatePathResolve
    \/ CreatePathReject
    \/ CreatorSubmitEmpty
    \/ ProfileSave
    \/ ApiKeySetupSave
    \/ GenerateModuleRequest
    \/ GenerateModuleResolve
    \/ GenerateModuleReject
    \/ handleQuizSubmit
    \/ onShowAnswers
    \/ GenerateMockTestRequest
    \/ GenerateMockTestResolve
    \/ GenerateMockTestReject
    \/ handleMockTestSubmit
    \/ MainAppMount

Spec == Init /\ [][Next]_vars

\* ------------------------------------------- grading, over bounded quizzes
\* The questions the quizzes of GradeSpec are made of: correctAnswers as the
\* gateway may send it (quizSchema: an array of strings) - one option, two
\* options out of sorted order, the same option twice, no option.
GradeQuestions ==
    { Q(MCQ, <<1, 2>>, <<1>>), Q(MSQ, <<1, 2>>, <<2, 1>>),
      Q(MSQ, <<1, 2>>, <<1, 1>>), Q(MSQ, <<1, 2>>, <<>>) }

GradeQuizzes ==
    UNION {[1 .. n -> GradeQuestions] : n \in 1 .. MaxGradeQuestions}

\* A one-module course after GenerateModuleResolve, its quiz opened
\* (CourseViewModuleClick, ModuleViewTakeQuiz).
GradeModuleRef == [cid |-> Id(1, ""), slot |-> 0]
GradeMockRef == [cid |-> Id(1, ""), slot |-> -1]
GradeCourseReady ==
    SetModuleState(NewCourse(Id(1, ""), Titles[1], 1), 0, READY, TRUE, GradeModuleRef)

\* The same course after a full-mark submission, GenerateMockTestResolve and
\* CourseViewStartMockTest.
GradeCourseMock ==
    [GradeCourse(GradeCourseReady, 0, 100) EXCEPT
        !.mockTest = GradeMockRef, !.mockTestState = READY]

GradeInit ==
    /\ session = "one"
    /\ learningPaths = <<>>
    /\ activePath = Null
    /\ loading = FALSE
    /\ error = FALSE
    /\ mockTestScore = [score |-> 0, total |-> 0]
    /\ pending = {}
    /\ clock = 1
    /\ apiKey = TRUE
    /\ activeModule = [module |-> At(GradeCourseReady.modules, 0), index |-> 0]
    /\ \E quiz \in GradeQuizzes :
        \/ /\ courses = << GradeCourseReady >>
           /\ activeCourse = GradeCourseReady
           /\ view = "quiz"
           /\ quizScore = [score |-> 0, total |-> 0]
           /\ quizObj = [x \in {GradeModuleRef} |-> quiz]
        \/ /\ courses = << GradeCourseMock >>
           /\ activeCourse = GradeCourseMock
           /\ view = "mock_test"
           /\ quizScore = [score |-> Len(ModuleQuiz), total |-> Len(ModuleQuiz)]
           /\ quizObj = [x \in {GradeModuleRef, GradeMockRef} |->
                            IF x = GradeMockRef THEN quiz ELSE SortedQuiz(ModuleQuiz)]
    /\ user = [id |-> UserId, email |-> "a", name |-> "n", apiKey |-> apiKey]
    /\ authError = ""
    /\ localStorage = [k \in StorageKeys \cup AuthKeys |->
            IF k = USERS_DB_KEY THEN [json |-> << WithPassword(user, "p") >>]
            ELSE IF k = CURRENT_USER_KEY THEN [json |-> user]
            ELSE IF k = COURSES_STORAGE_KEY
            THEN [json |-> StringifyCourses(courses, quizObj)]
            ELSE IF k.user = UserId THEN [json |-> <<>>] ELSE Null]
    /\ mounts = 1

\* QuizView "Submit Answers" with any sheet the view can hold
GradeModuleQuiz == QuizSubmit(AnswerSheets(ActiveQuiz))
GradeMockTest == MockTestSubmit(AnswerSheets(ActiveMockTest))

GradeNext ==
    \/ GradeModuleQuiz
    \/ GradeMockTest

GradeSpec == GradeInit /\ [][GradeNext]_vars

\* ------------------------------------------- accounts, signup and login
\* What MainApp holds; the steps of AuthPage and of the auth hook leave it
\* alone (AuthSpec leaves MainApp's own state at its initial value).
MainAppState ==
    << courses, learningPaths, activePath, activeCourse, activeModule, view,
       loading, error, quizScore, mockTestScore, quizObj, pending, mounts,
       session >>

\* The messages AuthPage shows.
FillInAllFields == "Please fill in all fields."
EmailExists == "An account with this email already exists."
InvalidLogin == "Invalid email or password."

\* The application opened for the first time: no account, nobody logged in,
\* AuthPage shown.
AuthInit ==
    /\ courses = <<>>
    /\ learningPaths = <<>>
    /\ activePath = Null
    /\ activeCourse = Null
    /\ activeModule = Null
    /\ view = "dashboard"
    /\ loading = FALSE
    /\ error = FALSE
    /\ quizScore = [score |-> 0, total |-> 0]
    /\ mockTestScore = [score |-> 0, total |-> 0]
    /\ quizObj = << >>
    /\ pending = {}
    /\ clock = 0
    /\ apiKey = FALSE
    /\ user = Null
    /\ authError = ""
    /\ localStorage = [k \in StorageKeys \cup AuthKeys |-> Null]
    /\ mounts = 1
    /\ session = "one"

\* AuthPage.handleSignup with the fields as typed, signup of the hook
\* included: a new account is appended to the database, its id the time
\* read; nobody is logged in by it.
handleSignup(name, email, password) ==
    /\ user = Null
    /\ IF email = "" \/ password = "" \/ name = ""
       THEN /\ authError' = FillInAllFields
            /\ UNCHANGED << localStorage, clock >>
       ELSE IF EmailTaken(UsersDb, email)
       THEN /\ authError' = EmailExists
            /\ UNCHANGED << localStorage, clock >>
       ELSE /\ Len(UsersDb) < MaxAccounts
            /\ clock' = clock + 1
            /\ localStorage' =
                 [localStorage EXCEPT ![USERS_DB_KEY] =
                    [json |-> Append(UsersDb,
                        [id |-> UserIdAt(clock + 1), email |-> email,
                         name |-> name, apiKey |-> FALSE,
                         password |-> password])]]
            /\ authError' = ""
    /\ UNCHANGED << user, apiKey, MainAppState >>

\* AuthPage.handleLogin with the fields as typed, login of the hook included.
handleLogin(email, password) ==
    /\ user = Null
    /\ LET found == SelectSeq(UsersDb,
                        LAMBDA u : u.email = email /\ u.password = password)
       IN  IF email = "" \/ password = ""
           THEN /\ authError' = FillInAllFields
                /\ UNCHANGED << user, apiKey, localStorage >>
           ELSE IF found = <<>>
           THEN /\ authError' = InvalidLogin
                /\ UNCHANGED << user, apiKey, localStorage >>
           ELSE /\ user' = WithoutPassword(found[1])
                /\ apiKey' = found[1].apiKey
                /\ localStorage' =
                     [localStorage EXCEPT ![CURRENT_USER_KEY] =
                        [json |-> WithoutPassword(found[1])]]
                /\ UNCHANGED authError
    /\ UNCHANGED << clock, MainAppState >>

\* logout of the hook (the Logout button of MainApp); AuthPage is mounted
\* anew.
logout ==
    /\ user # Null
    /\ user' = Null
    /\ apiKey' = FALSE
    /\ authError' = ""
    /\ localStorage' = [localStorage EXCEPT ![CURRENT_USER_KEY] = Null]
    /\ UNCHANGED << clock, MainAppState >>

\* ProfileView.handleSave with the name and key fields as typed.
handleSave ==
    /\ user # Null
    /\ \E name \in Names, key \in BOOLEAN :
        /\ updateUser(name, key)
        /\ apiKey' = key
    /\ UNCHANGED << authError, clock, MainAppState >>

\* AuthProvider mounted again (the page is reloaded): the current user is
\* read from the store.
AuthProviderMount ==
    /\ user' = IF localStorage[CURRENT_USER_KEY] = Null THEN Null
               ELSE localStorage[CURRENT_USER_KEY].json
    /\ apiKey' = IF localStorage[CURRENT_USER_KEY] = Null THEN FALSE
                 ELSE localStorage[CURRENT_USER_KEY].json.apiKey
    /\ authError' = ""
    /\ UNCHANGED << localStorage, clock, MainAppState >>

SignupSubmit ==
    \E name \in Names, email \in EmailInputs, password \in Passwords :
        handleSignup(name, email, password)

LoginSubmit ==
    \E email \in EmailInputs, password \in Passwords :
        handleLogin(email, password)

AuthNext ==
    \/ SignupSubmit
    \/ LoginSubmit
    \/ logout
    \/ handleSave
    \/ AuthProviderMount

AuthSpec == AuthInit /\ [][AuthNext]_vars

\* ================================================================== claims
\* A course is named by its place: <<0, k>> is courses[k], <<j, k>> is
\* learningPaths[j].courses[k].  Arrays only grow at their end, so a place
\* names the same course before and after a step.
CourseSlots ==
    {<<0, k>> : k \in 1 .. Len(courses)} \cup
    UNION {{<<j, k>> : k \in 1 .. Len(learningPaths[j].courses)} :
              j \in 1 .. Len(learningPaths)}

CourseAt(cs, ps, s) == IF s[1] = 0 THEN cs[s[2]] ELSE ps[s[1]].courses[s[2]]
Old(s) == CourseAt(courses, learningPaths, s)
New(s) == CourseAt(courses', learningPaths', s)

\* The step is a module-quiz submission; the quiz submitted is the one on
\* the screen, which belongs to module GradedRef.slot of the courses whose id
\* is GradedRef.cid; GradedPercentage is the percentage it obtained.
QuizGraded == Screen = "quiz" /\ activeCourse # Null /\ view' = "quiz_results"
GradedRef == activeModule.module.quiz
GradedPercentage == Percentage(quizScore'.score, quizScore'.total)

\* C1: for every course, standalone or in a path, a submission of the quiz
\* of module i with percentage >= 80 made while i = unlockedModuleIndex
\* raises that course's unlockedModuleIndex by exactly 1, a submission with
\* percentage < 80 leaves it unchanged, and no step ever lowers it.
C1_UnlockAdvance ==
    [][ /\ \A s \in CourseSlots :
              New(s).unlockedModuleIndex >= Old(s).unlockedModuleIndex
        /\ QuizGraded =>
              \A s \in CourseSlots :
                 Old(s).id = GradedRef.cid =>
                    /\ (GradedPercentage >= 80
                          /\ Old(s).unlockedModuleIndex = GradedRef.slot)
                       => New(s).unlockedModuleIndex = Old(s).unlockedModuleIndex + 1
                    /\ GradedPercentage < 80
                       => New(s).unlockedModuleIndex = Old(s).unlockedModuleIndex
      ]_vars

\* C2: a course's isCompleted is true if and only if every one of its
\* modules has isCompleted = true, for standalone courses and for the copies
\* held in learning paths, in every state (so in every state after a grading).
C2_CompletedIffAllModules ==
    \A k \in 1 .. Len(AllCourses) :
        AllCourses[k].isCompleted <=> AllModulesCompleted(AllCourses[k])

\* A course of two modules has been completed by the grading just made.
C2_Witness ==
    /\ view = "quiz_results"
    /\ \E k \in 1 .. Len(courses) :
          /\ Len(courses[k].modules) = 2
          /\ courses[k].isCompleted
          /\ AllModulesCompleted(courses[k])

\* C3: 0 <= unlockedModuleIndex <= number of modules, for every course in
\* every reachable state.
C3_UnlockInRange ==
    \A k \in 1 .. Len(AllCourses) :
        /\ 0 <= AllCourses[k].unlockedModuleIndex
        /\ AllCourses[k].unlockedModuleIndex <= Len(AllCourses[k].modules)

\* C4: a module-quiz submission changes only the graded module and the
\* unlock / completion fields of its course: on a pass the module gets
\* isCompleted = true, quizScore = percentage, quizAttempts = 0; on a fail its
\* quizAttempts grows by 1 and nothing else of the module or of the course
\* changes; no other module and no other course changes.
C4_GradingFrame ==
    [][ QuizGraded =>
          \A s \in CourseSlots :
             IF Old(s).id # GradedRef.cid THEN New(s) = Old(s)
             ELSE /\ Len(New(s).modules) = Len(Old(s).modules)
                  /\ \A i \in Idx(Old(s).modules) :
                        At(New(s).modules, i) =
                           IF i # GradedRef.slot THEN At(Old(s).modules, i)
                           ELSE IF GradedPercentage >= 80
                                THEN [At(Old(s).modules, i) EXCEPT
                                         !.isCompleted = TRUE,
                                         !.quizScore = GradedPercentage,
                                         !.quizAttempts = 0]
                                ELSE [At(Old(s).modules, i) EXCEPT
                                         !.quizAttempts = @ + 1]
                  /\ New(s) = [Old(s) EXCEPT
                                  !.modules = New(s).modules,
                                  !.unlockedModuleIndex = New(s).unlockedModuleIndex,
                                  !.isCompleted = New(s).isCompleted]
                  /\ GradedPercentage < 80 =>
                        /\ New(s).unlockedModuleIndex = Old(s).unlockedModuleIndex
                        /\ New(s).isCompleted = Old(s).isCompleted
      ]_vars

\* C5: once a module has isCompleted = true no step sets it back to false,
\* and once a course has isCompleted = true it stays true.
C5_CompletionMonotonic ==
    [][ \A s \in CourseSlots :
          /\ Old(s).isCompleted => New(s).isCompleted
          /\ \A i \in Idx(Old(s).modules) :
                At(Old(s).modules, i).isCompleted =>
                   /\ i < Len(New(s).modules)
                   /\ At(New(s).modules, i).isCompleted
      ]_vars

\* A completed module whose quiz was failed again afterwards (a pass writes
\* quizAttempts = 0, so a positive count on a completed module is a later
\* fail), in a completed course.
C5_Witness ==
    \E k \in 1 .. Len(courses) :
        /\ courses[k].isCompleted
        /\ \E i \in Idx(courses[k].modules) :
              /\ At(courses[k].modules, i).isCompleted
              /\ At(courses[k].modules, i).quizAttempts > 0

\* C6: a submission of the quiz of a module of a course held in a learning
\* path grades the path's copy of that course as a standalone course is
\* graded: on a pass the module of the copy becomes completed, the copy's
\* unlockedModuleIndex advances when the module was the frontier and the
\* copy's isCompleted is recomputed; on a fail the module's quizAttempts in
\* the copy grows by 1.
C6_PathCopyGraded ==
    [][ QuizGraded =>
          \A s \in CourseSlots :
             (s[1] # 0 /\ Old(s).id = GradedRef.cid) =>
                LET i == GradedRef.slot IN
                IF GradedPercentage >= 80
                THEN /\ At(New(s).modules, i).isCompleted
                     /\ Old(s).unlockedModuleIndex = i
                        => New(s).unlockedModuleIndex = i + 1
                     /\ New(s).isCompleted <=> AllModulesCompleted(New(s))
                ELSE At(New(s).modules, i).quizAttempts =
                        At(Old(s).modules, i).quizAttempts + 1
      ]_vars

\* The submission of this step passes the last module not yet completed of
\* course c: the grading rules make c completed in this step.
CompletesCourse(c) ==
    /\ QuizGraded
    /\ GradedPercentage >= 80
    /\ c.id = GradedRef.cid
    /\ ~c.isCompleted
    /\ \A i \in Idx(c.modules) :
          i # GradedRef.slot => At(c.modules, i).isCompleted

\* C7: a learning path's unlockedCourseIndex starts at 0, grows by exactly 1
\* in the step in which the course at that index becomes completed through
\* quiz grading, changes in no other step, and stays within 0..number of
\* courses.
C7_PathUnlockAdvance ==
    [][ /\ \A j \in 1 .. Len(learningPaths) :
              LET p == learningPaths[j]
                  u == p.unlockedCourseIndex
              IN  /\ learningPaths'[j].unlockedCourseIndex =
                        IF u < Len(p.courses) /\ CompletesCourse(At(p.courses, u))
                        THEN u + 1 ELSE u
                  /\ learningPaths'[j].unlockedCourseIndex \in 0 .. Len(p.courses)
        /\ \A j \in (Len(learningPaths) + 1) .. Len(learningPaths') :
              learningPaths'[j].unlockedCourseIndex = 0
      ]_vars

\* the permutations of a sequence
PermOf(seq) ==
    LET D == 1 .. Len(seq) IN
    {[i \in D |-> seq[f[i]]] :
        f \in {g \in [D -> D] : \A x, y \in D : g[x] = g[y] => x = y}}

\* a sheet with the selected options of every question in any order
SheetPerms(a) ==
    ProductSeq([k \in 1 .. Len(a) |->
        IF a[k] = Null THEN {Null} ELSE {Sel(p) : p \in PermOf(a[k].sel)}])

\* a quiz with the correctAnswers of every question in any order
QuizPerms(quiz) ==
    ProductSeq([k \in 1 .. Len(quiz) |->
        {[quiz[k] EXCEPT !.correctAnswers = p] : p \in PermOf(quiz[k].correctAnswers)}])

\* C8: for every quiz held (module quiz or mock test) and every sheet that
\* can be submitted, permuting the selected options of any questions and the
\* correctAnswers of any questions changes neither the score nor the
\* percentage.
C8_OrderIndependent ==
    \A ref \in DOMAIN quizObj :
        LET quiz == quizObj[ref] IN
        \A a \in AnswerSheets(quiz) :
            \A b \in SheetPerms(a), quiz2 \in QuizPerms(quiz) :
                /\ Score(quiz2, b) = Score(quiz, a)
                /\ Percentage(Score(quiz2, b), Len(quiz2)) =
                      Percentage(Score(quiz, a), Len(quiz))

\* A full-mark result has been shown for a module quiz one of whose questions
\* has two correct options.
C8_Witness ==
    /\ view = "quiz_results"
    /\ quizScore.score = quizScore.total
    /\ \E k \in 1 .. Len(quizObj[GradeModuleRef]) :
          Len(quizObj[GradeModuleRef][k].correctAnswers) = 2

\* the set of options a sheet selects for a question (none when not answered)
SubmittedSet(ans) == IF ans = Null THEN {} ELSE Range(ans.sel)

\* C9: for every quiz with at least one question, the score is the number of
\* questions whose submitted option set equals the set of correctAnswers, and
\* the percentage is 100 * score / number of questions rounded to the nearest
\* integer, in 0..100 and non-decreasing in the score.
C9_ScoreCountsSetMatches ==
    \A ref \in DOMAIN quizObj :
        LET quiz == quizObj[ref]
            n == Len(quiz)
        IN  \A a \in AnswerSheets(quiz) :
                LET score == Score(quiz, a)
                    percentage == Percentage(score, n)
                    matched == {k \in 1 .. n :
                                   SubmittedSet(a[k]) = Range(quiz[k].correctAnswers)}
                    diff == 100 * score - n * percentage
                IN  /\ score = Cardinality(matched)
                    /\ percentage \in 0 .. 100
                    /\ 2 * diff <= n /\ -(2 * diff) <= n
                    /\ \A lower \in 0 .. score : Percentage(lower, n) <= percentage

\* The step is a mock-test submission of the test on the screen, which
\* belongs to the courses whose id is MockRef.cid.
MockGraded == Screen = "mock_test" /\ view' = "mock_test_results"
MockRef == activeCourse.mockTest
MockPercentage == Percentage(mockTestScore'.score, mockTestScore'.total)

\* C10: a mock-test submission with percentage >= 70 sets the course's
\* mockTestScore to the percentage; it creates a badge, with score =
\* percentage and the course's title, if and only if percentage >= 80; a
\* submission below 80 creates no badge and removes none.
C10_MockScoreAndBadge ==
    [][ MockGraded =>
          \A s \in CourseSlots :
             Old(s).id = MockRef.cid =>
                /\ MockPercentage >= 70 => New(s).mockTestScore = MockPercentage
                /\ MockPercentage >= 80 =>
                      /\ New(s).badge # Null
                      /\ New(s).badge.score = MockPercentage
                      /\ New(s).badge.courseTitle = Old(s).title
                /\ MockPercentage < 80 => New(s).badge = Old(s).badge
      ]_vars

\* A course that holds a badge has just had a submission scoring 70..79.
C10_Witness ==
    /\ view = "mock_test_results"
    /\ \E k \in 1 .. Len(courses) :
          /\ courses[k].badge # Null
          /\ courses[k].mockTestScore \in 70 .. 79

\* The quiz of a module of a path's course has just been passed with full
\* marks and the module of the path's copy is not completed.
C6_Witness ==
    /\ view = "quiz_results"
    /\ quizScore.total > 0
    /\ quizScore.score = quizScore.total
    /\ activeModule # Null
    /\ \E j \in 1 .. Len(learningPaths) :
          \E k \in 1 .. Len(learningPaths[j].courses) :
             LET c == learningPaths[j].courses[k] IN
             /\ c.id = activeModule.module.quiz.cid
             /\ ~At(c.modules, activeModule.index).isCompleted

\* The quiz of the only module of the course at a path's frontier has just
\* been passed with full marks and the path's unlockedCourseIndex is still 0.
C7_Witness ==
    /\ view = "quiz_results"
    /\ quizScore.total > 0
    /\ quizScore.score = quizScore.total
    /\ activeModule # Null
    /\ \E j \in 1 .. Len(learningPaths) :
          LET p == learningPaths[j]
              c == At(p.courses, 0)
          IN  /\ p.unlockedCourseIndex = 0
              /\ Len(c.modules) = 1
              /\ c.id = activeModule.module.quiz.cid

\* C11: over any sequence of mock-test submissions on a course, a badge once
\* created is never removed and its score never decreases: a later submission
\* with a lower percentage (also one that is still >= 80) does not replace
\* the badge the course holds.
C11_BadgeNeverLowered ==
    [][ \A s \in CourseSlots :
          Old(s).badge # Null =>
             /\ New(s).badge # Null
             /\ New(s).badge.score >= Old(s).badge.score
      ]_vars

\* A course holds a badge whose score is not the full mark it can reach.
C11_Witness ==
    \E k \in 1 .. Len(courses) :
        /\ courses[k].badge # Null
        /\ courses[k].badge.score < 100

\* C12: a badge is created at most once per course, by the first mock-test
\* submission scoring >= 80: a course gets a badge only in the step of such a
\* submission, and from then on its badge (score and dateAwarded) stays the
\* same whatever mock-test submissions follow.
C12_BadgeCreatedOnce ==
    [][ \A s \in CourseSlots :
          /\ (Old(s).badge = Null /\ New(s).badge # Null) =>
                /\ MockGraded
                /\ MockPercentage >= 80
                /\ Old(s).id = MockRef.cid
          /\ Old(s).badge # Null => New(s).badge = Old(s).badge
      ]_vars

\* A course that holds a badge has had a later mock-test submission graded.
C12_Witness ==
    /\ view = "mock_test_results"
    /\ \E k \in 1 .. Len(courses) :
          /\ courses[k].badge # Null
          /\ courses[k].mockTestScore # courses[k].badge.score

\* The edges of a module's generationState.
ModuleEdges ==
    { <<LOCKED, GENERATING>>, <<FAILED, GENERATING>>,
      <<GENERATING, READY>>, <<GENERATING, FAILED>> }

\* The step issues a generation request for module i of the courses whose
\* id is cid (handleGenerateModule called from the button of CourseView).
ModuleRequested(cid, i) ==
    [kind |-> "module", cid |-> cid, index |-> i] \in pending' \ pending

\* C13: a module's generationState changes only along LOCKED -> GENERATING,
\* FAILED -> GENERATING, GENERATING -> READY and GENERATING -> FAILED; a
\* module enters GENERATING only in the step of a user-initiated generation
\* request for it (no automatic retry: FAILED stays FAILED until then), and
\* READY is never left.
C13_ModuleLifecycle ==
    [][ \A s \in CourseSlots :
          \A i \in Idx(Old(s).modules) :
             /\ i < Len(New(s).modules)
             /\ LET a == At(Old(s).modules, i).generationState
                    b == At(New(s).modules, i).generationState
                IN  a # b =>
                       /\ <<a, b>> \in ModuleEdges
                       /\ b = GENERATING => ModuleRequested(Old(s).id, i)
      ]_vars

\* A course holds a module that became READY and a module whose generation
\* failed.
C13_Witness ==
    \E k \in 1 .. Len(courses) :
        /\ Len(courses[k].modules) = 2
        /\ courses[k].modules[1].generationState = READY
        /\ courses[k].modules[2].generationState = FAILED

\* content and quiz of a module are both defined exactly when it is READY
ContentMatchesState(m) ==
    /\ m.content <=> m.generationState = READY
    /\ m.quiz # Null <=> m.generationState = READY

\* C14: in every reachable state a module has content and quiz defined if
\* and only if its generationState is READY (so both are set in the step that
\* enters READY), and a failed generation (GENERATING -> FAILED) leaves
\* content and quiz as they were before it.
C14_ContentIffReady ==
    [][ /\ \A k \in 1 .. Len(AllCourses) :
              \A i \in Idx(AllCourses[k].modules) :
                 ContentMatchesState(At(AllCourses[k].modules, i))
        /\ \A s \in CourseSlots :
              /\ \A i \in Idx(New(s).modules) :
                    ContentMatchesState(At(New(s).modules, i))
              /\ \A i \in Idx(Old(s).modules) :
                    (/\ At(Old(s).modules, i).generationState = GENERATING
                     /\ At(New(s).modules, i).generationState = FAILED) =>
                       /\ At(New(s).modules, i).content = At(Old(s).modules, i).content
                       /\ At(New(s).modules, i).quiz = At(Old(s).modules, i).quiz
      ]_vars

\* A course whose first module is READY with content and quiz and whose
\* second module is FAILED with neither, no request being outstanding.
C14_Witness ==
    /\ pending = {}
    /\ \E k \in 1 .. Len(courses) :
          LET ms == courses[k].modules IN
          /\ Len(ms) = 2
          /\ ms[1].generationState = READY /\ ms[1].content /\ ms[1].quiz # Null
          /\ ms[2].generationState = FAILED /\ ~ms[2].content /\ ms[2].quiz = Null

\* CourseView offers the generation of module i of a course whose id is cid.
RequestOffered(cid, i) ==
    /\ Screen = "course"
    /\ HasKey
    /\ activeCourse.id = cid
    /\ i \in Idx(activeCourse.modules)
    /\ CanGenerateModule(activeCourse, i)

\* The module of an outstanding request is GENERATING, and for no module
\* that is GENERATING a request is offered.
OneRequestInFlight ==
    /\ \A r \in pending :
          r.kind = "module" =>
             /\ ~RequestOffered(r.cid, r.index)
             /\ \A k \in 1 .. Len(AllCourses) :
                   AllCourses[k].id = r.cid =>
                      At(AllCourses[k].modules, r.index).generationState = GENERATING
    /\ \A k \in 1 .. Len(AllCourses) :
          \A i \in Idx(AllCourses[k].modules) :
             At(AllCourses[k].modules, i).generationState = GENERATING =>
                ~RequestOffered(AllCourses[k].id, i)

\* C15: at most one generation request per module is outstanding: a request
\* sets the module to GENERATING in the step that issues it, before the
\* gateway answers, and while a module is GENERATING (a request for it is
\* outstanding) no second request for it can be issued, whatever navigation
\* happened in between.
C15_SingleRequestPerModule ==
    /\ []OneRequestInFlight
    /\ [][ \A s \in CourseSlots :
             \A i \in Idx(Old(s).modules) :
                ModuleRequested(Old(s).id, i) =>
                   /\ At(Old(s).modules, i).generationState # GENERATING
                   /\ At(New(s).modules, i).generationState = GENERATING
         ]_vars

\* Two generation requests are outstanding, for modules of two courses, and
\* the learner is on the course view of one of them (the second request was
\* issued after leaving the course of the first).
C15_Witness ==
    /\ Screen = "course"
    /\ \E r1, r2 \in pending :
          /\ r1.kind = "module" /\ r2.kind = "module"
          /\ r1.cid # r2.cid
          /\ activeCourse.id = r1.cid
          /\ At(activeCourse.modules, r1.index).generationState = GENERATING

\* The step is the completion of the module generation request r (the
\* gateway answers it; a new mount only drops it).
ModuleCompleted(r) ==
    r.kind = "module" /\ r \in pending /\ r \notin pending' /\ mounts' = mounts

\* course c with the result of a generation stored in its module i: READY
\* with content and the quiz, or FAILED with neither
WithResult(c, i, state, quiz) ==
    [c EXCEPT !.modules[i + 1] =
        [@ EXCEPT !.generationState = state, !.content = (state = READY),
                  !.quiz = quiz]]

\* C16: when a module generation started for course A resolves, whatever
\* course the learner has opened meanwhile, the result (READY with content
\* and quiz, or FAILED) is stored in the module at the requested index of the
\* course that has A's id, and the stored data of every other course is
\* unchanged: one course changes, the one the request was made for.
C16_ResultAppliedToRequester ==
    [][ \A r \in pending :
          ModuleCompleted(r) =>
             LET changed == {s \in CourseSlots : New(s) # Old(s)} IN
             /\ Cardinality(changed) = 1
             /\ \A s \in changed :
                   /\ Old(s).id = r.cid
                   /\ r.index < Len(Old(s).modules)
                   /\ \/ New(s) = WithResult(Old(s), r.index, FAILED, Null)
                      \/ /\ At(New(s).modules, r.index).quiz # Null
                         /\ New(s) = WithResult(Old(s), r.index, READY,
                                         At(New(s).modules, r.index).quiz)
      ]_vars

\* A generation started for one standalone course has resolved READY while
\* the learner had another course open: the other course is the active one's
\* neighbour and its module is still LOCKED.
C16_Witness ==
    /\ Len(courses) = 2
    /\ pending = {}
    /\ courses[1].modules[1].generationState = READY
    /\ courses[2].modules[1].generationState = LOCKED
    /\ activeCourse # Null
    /\ activeCourse.id = courses[1].id
    /\ view = "course"

\* The step issues, or completes, a mock-test request for the courses whose
\* id is cid (a new mount only drops the request).
MockRequested(cid) == [kind |-> "mock", cid |-> cid] \in pending' \ pending
MockCompleted(cid) ==
    [kind |-> "mock", cid |-> cid] \in pending \ pending' /\ mounts' = mounts

\* mockTestState is READY exactly when mockTest is defined
MockTestMatchesState(c) == c.mockTestState = READY <=> c.mockTest # Null

\* C17: a mock-test request sets mockTestState to GENERATING in the step that
\* issues it; its success sets mockTest and mockTestState = READY in one
\* step; its failure sets mockTestState = FAILED and leaves mockTest
\* unchanged; mockTestState enters GENERATING only by a user-initiated
\* request (so from FAILED only by a retry); and in every reachable state
\* mockTestState = READY if and only if mockTest is defined.
C17_MockTestLifecycle ==
    /\ [](\A k \in 1 .. Len(AllCourses) : MockTestMatchesState(AllCourses[k]))
    /\ [][ \A s \in CourseSlots :
             /\ MockRequested(Old(s).id) =>
                   New(s) = [Old(s) EXCEPT !.mockTestState = GENERATING]
             /\ MockCompleted(Old(s).id) =>
                   /\ Old(s).mockTestState = GENERATING
                   /\ \/ /\ New(s).mockTest # Null
                         /\ New(s) = [Old(s) EXCEPT !.mockTest = New(s).mockTest,
                                                    !.mockTestState = READY]
                      \/ New(s) = [Old(s) EXCEPT !.mockTestState = FAILED]
             /\ New(s).mockTestState # Old(s).mockTestState =>
                   IF New(s).mockTestState = GENERATING
                   THEN MockRequested(Old(s).id)
                   ELSE MockCompleted(Old(s).id)
         ]_vars

\* Of two courses, one has its mock test READY and defined, the other had its
\* mock-test generation fail and holds no mock test.
C17_Witness ==
    /\ Len(courses) = 2
    /\ courses[1].mockTestState = READY
    /\ courses[1].mockTest # Null
    /\ courses[2].mockTestState = FAILED
    /\ courses[2].mockTest = Null

\* C18: the mock test is available only once every module is completed: in
\* every reachable state a course whose mockTestState is GENERATING, READY or
\* FAILED, or whose mockTest or mockTestScore is defined, has isCompleted =
\* true on every one of its modules.
C18_MockTestAfterModules ==
    \A k \in 1 .. Len(AllCourses) :
        LET c == AllCourses[k] IN
        (\/ c.mockTestState \in {GENERATING, READY, FAILED}
         \/ c.mockTest # Null
         \/ c.mockTestScore # Undef)
        => \A i \in Idx(c.modules) : At(c.modules, i).isCompleted

\* A course of two modules has had its mock test generated and graded.
C18_Witness ==
    \E k \in 1 .. Len(courses) :
        /\ Len(courses[k].modules) = 2
        /\ courses[k].mockTestState = READY
        /\ courses[k].mockTest # Null
        /\ courses[k].mockTestScore # Undef

\* C19: with no API credential every generation operation (course outline,
\* learning-path outline, module content, mock test) is refused before the
\* gateway is called: a step taken without a key adds no gateway request,
\* brings no module and no mock test into GENERATING, and changes the courses
\* and the learning paths only when it is the answer to a request that was
\* issued earlier (so no refusal marks anything FAILED).
C19_NoKeyNoGeneration ==
    [][ ~apiKey =>
          /\ pending' \subseteq pending
          /\ pending' = pending =>
                courses' = courses /\ learningPaths' = learningPaths
          /\ \A s \in CourseSlots :
                /\ New(s).mockTestState = GENERATING =>
                      Old(s).mockTestState = GENERATING
                /\ \A i \in Idx(Old(s).modules) :
                      At(New(s).modules, i).generationState = GENERATING =>
                         At(Old(s).modules, i).generationState = GENERATING
      ]_vars

\* The user has no key while a course holds a module whose generation would
\* be offered, and a request issued earlier is still outstanding.
C19_Witness ==
    /\ ~apiKey
    /\ Screen = "api-key-setup"
    /\ pending # {}
    /\ \E k \in 1 .. Len(courses) :
          /\ courses[k].unlockedModuleIndex < Len(courses[k].modules)
          /\ CanGenerateModule(courses[k], courses[k].unlockedModuleIndex)

\* The step is the failure of a course-outline or learning-path-outline
\* request (the catch branch of handleCreateCourse / handleCreateLearningPath).
OutlineFailed ==
    \E r \in pending \ pending' : r.kind \in {"course", "path"} /\ error'

\* the screens with a creation form
CreatorViews == {"create-topic", "create-document", "create-path"}

\* C20: a failed course-outline or learning-path-outline generation is
\* recoverable in the same session: the failure adds no course and no path
\* and leaves the collections unchanged, and it leaves the learner where a
\* new outline request can be issued: the creation form the handler returns
\* to is on the screen.
C20_OutlineFailureRecoverable ==
    [][ OutlineFailed =>
          /\ courses' = courses
          /\ learningPaths' = learningPaths
          /\ Screen' \in CreatorViews
      ]_vars

\* A learning-path outline request has failed: the message is set and the
\* view is the path creation form.
C20_Witness ==
    /\ error
    /\ ~loading
    /\ HasKey
    /\ view = "create-path"
    /\ pending = {}
    /\ learningPaths = <<>>

\* ------------------------------------------------------------ claim C21
\* The snapshot under the user's two keys is what JSON.stringify gives for
\* the collections held in memory.
SnapshotOfMemory ==
    /\ localStorage[COURSES_STORAGE_KEY] =
            [json |-> StringifyCourses(courses, quizObj)]
    /\ localStorage[PATHS_STORAGE_KEY] =
            [json |-> StringifyPaths(learningPaths, quizObj)]

\* C21: in every state (so after every creation, generation request,
\* generation completion, quiz grading and mock-test grading) the snapshot
\* stored under the current user's keys equals the collections in memory, and
\* nothing is stored under the keys of another user id.
C21_SnapshotEqualsMemory ==
    /\ SnapshotOfMemory
    /\ \A k \in StorageKeys : k.user # UserId => localStorage[k] = Null

\* A module quiz of a path's course has been graded: the quiz held in memory
\* has its correctAnswers sorted, the stored learning paths have not.
C21_Witness ==
    /\ view = "quiz_results"
    /\ learningPaths # <<>>
    /\ localStorage[COURSES_STORAGE_KEY] =
            [json |-> StringifyCourses(courses, quizObj)]
    /\ localStorage[PATHS_STORAGE_KEY] #
            [json |-> StringifyPaths(learningPaths, quizObj)]

\* ------------------------------------------------------------ claim C22
\* C22: after a module-quiz submission that fails (percentage < 80) the
\* results screen offers "Show Correct Answers" exactly when the graded
\* module's quizAttempts, as stored after the submission, is >= 3; after a
\* submission that passes it is not offered.
C22_ShowAnswersFromThirdFail ==
    [][ QuizGraded =>
          /\ GradedPercentage >= 80 => ~ShowAnswersOffered'
          /\ GradedPercentage < 80 =>
                \A s \in CourseSlots :
                    (Old(s).id = GradedRef.cid
                        /\ GradedRef.slot < Len(New(s).modules))
                    => (ShowAnswersOffered'
                          <=> At(New(s).modules, GradedRef.slot).quizAttempts >= 3)
      ]_vars

\* The third failed attempt on a module of a standalone course has just been
\* graded, and the results screen does not offer the answers.
C22_Witness ==
    /\ Screen = "quiz_results"
    /\ Percentage(quizScore.score, quizScore.total) < ModulePassMark
    /\ ~ShowAnswersOffered
    /\ \E k \in 1 .. Len(courses) :
        /\ courses[k].id = activeCourse.id
        /\ courses[k].id = activeModule.module.quiz.cid
        /\ activeModule.index = activeModule.module.quiz.slot
        /\ At(courses[k].modules, activeModule.index).quizAttempts = 3

\* ------------------------------------------------------------ claim C23
\* C23: a module-quiz or mock-test submission leaves every stored quiz as it
\* was: the same questions in the same order, each with the same options and
\* the same correctAnswers as ordered sequences.
C23_GradingKeepsQuiz ==
    [][ (QuizGraded \/ MockGraded) => quizObj' = quizObj ]_vars

\* A module quiz has been graded and the quiz the course holds is no longer
\* the quiz the gateway returned.
C23_Witness ==
    /\ view = "quiz_results"
    /\ activeModule # Null
    /\ activeModule.module.quiz # Null
    /\ quizObj[activeModule.module.quiz] # ModuleQuiz
    /\ quizObj[activeModule.module.quiz] = SortedQuiz(ModuleQuiz)

\* ------------------------------------------------------------ claim C24
\* The gateway answers request r: the step of a generation completion.
GatewayAnswered(r) ==
    /\ r.kind \in {"module", "mock"}
    /\ r \in pending
    /\ r \notin pending'
    /\ mounts' = mounts

\* C24: when a module generation or mock-test generation started on course A
\* completes while another course B is the active course, B is still the
\* active course after the completion.
C24_CompletionKeepsOpenCourse ==
    [][ \A r \in pending :
            (GatewayAnswered(r) /\ activeCourse # Null /\ activeCourse.id # r.cid)
            => (activeCourse' # Null /\ activeCourse'.id = activeCourse.id)
      ]_vars

\* The learner has a module of one course open while the active course is
\* another one: a completion has replaced the active course under the module.
C24_Witness ==
    /\ Screen \in {"module", "quiz"}
    /\ pending = {}
    /\ activeModule.module.quiz # Null
    /\ activeModule.module.quiz.cid # activeCourse.id

\* ------------------------------------------------------------ claim C25
\* Every completed module is READY and holds a quiz.
CompletedModulesReady ==
    \A k \in 1 .. Len(AllCourses) :
        \A i \in 1 .. Len(AllCourses[k].modules) :
            AllCourses[k].modules[i].isCompleted =>
                /\ AllCourses[k].modules[i].generationState = READY
                /\ AllCourses[k].modules[i].quiz # Null

\* C25: a module becomes completed only in a step that grades a submission
\* of that module's own quiz (the quiz of that course and that module index)
\* with a percentage >= 80; and in every state a completed module is READY
\* and holds a quiz.
C25_GradeCreditedToOwnModule ==
    /\ []CompletedModulesReady
    /\ [][ \A s \in CourseSlots :
             \A i \in 1 .. Len(New(s).modules) :
                (New(s).modules[i].isCompleted
                    /\ (i > Len(Old(s).modules) \/ ~Old(s).modules[i].isCompleted))
                => /\ QuizGraded
                   /\ GradedRef = [cid |-> Old(s).id, slot |-> i - 1]
                   /\ GradedPercentage >= 80
         ]_vars

\* A module that was never generated is completed: a quiz of another course
\* was graded against it.
C25_Witness ==
    \E k \in 1 .. Len(courses) :
        \E i \in 1 .. Len(courses[k].modules) :
            /\ courses[k].modules[i].isCompleted
            /\ courses[k].modules[i].generationState = LOCKED
            /\ courses[k].modules[i].quiz = Null

\* ------------------------------------------------------------ claim C26
\* C26: in every state and for every course, standalone or in a path, module
\* i (counted from 0) is completed if and only if i < unlockedModuleIndex,
\* and the course is completed if and only if unlockedModuleIndex equals the
\* number of its modules.
C26_CompletedBelowFrontier ==
    \A k \in 1 .. Len(AllCourses) :
        LET c == AllCourses[k] IN
        /\ \A i \in Idx(c.modules) :
              At(c.modules, i).isCompleted <=> i < c.unlockedModuleIndex
        /\ c.isCompleted <=> c.unlockedModuleIndex = Len(c.modules)

\* A course whose second module is completed while its frontier is still at
\* the first: the quiz of another course was graded against it.
C26_Witness ==
    \E k \in 1 .. Len(courses) :
        /\ Len(courses[k].modules) = 2
        /\ courses[k].unlockedModuleIndex = 0
        /\ ~courses[k].modules[1].isCompleted
        /\ courses[k].modules[2].isCompleted

\* ------------------------------------------------------------ claim C27
\* C27: in every state, every module in state GENERATING and every mock test
\* in state GENERATING has an outstanding gateway request (whose answer makes
\* it READY or FAILED), also when the GENERATING state was read back from the
\* snapshot at the start of a later session.
C27_GeneratingHasRequest ==
    \A k \in 1 .. Len(AllCourses) :
        LET c == AllCourses[k] IN
        /\ \A i \in Idx(c.modules) :
              At(c.modules, i).generationState = GENERATING =>
                 [kind |-> "module", cid |-> c.id, index |-> i] \in pending
        /\ c.mockTestState = GENERATING =>
              [kind |-> "mock", cid |-> c.id] \in pending

\* A later session has started from a snapshot written while a module was
\* being generated: the module is GENERATING, no request is outstanding, and
\* the course view does not offer to generate it.
C27_Witness ==
    /\ mounts = 2
    /\ pending = {}
    /\ Screen = "course"
    /\ \E i \in Idx(activeCourse.modules) :
        /\ At(activeCourse.modules, i).generationState = GENERATING
        /\ ~CanGenerateModule(activeCourse, i)

\* ------------------------------------------------------------ claim C28
\* What a generation writes in a course, and what a grading writes.
GenerationFields(c) ==
    << [k \in 1 .. Len(c.modules) |->
           << c.modules[k].generationState, c.modules[k].content,
              c.modules[k].quiz >>],
       c.mockTest, c.mockTestState >>

GradingFields(c) ==
    << [k \in 1 .. Len(c.modules) |->
           << c.modules[k].isCompleted, c.modules[k].quizScore,
              c.modules[k].quizAttempts >>],
       c.unlockedModuleIndex, c.isCompleted, c.mockTestScore, c.badge >>

\* A generation request on the courses whose id is cid is outstanding.
RequestOutstanding(cid) ==
    \E r \in pending : r.kind \in {"module", "mock"} /\ r.cid = cid

C29_CourseIdsUnique ==
    \A j, k \in 1 .. Len(AllCourses) :
        AllCourses[j].id = AllCourses[k].id => j = k

\* A learning path holds two courses of one id: the gateway returned the
\* same title twice.
C29_Witness ==
    \E p \in 1 .. Len(learningPaths) :
        /\ Len(learningPaths[p].courses) = 2
        /\ learningPaths[p].courses[1].id = learningPaths[p].courses[2].id
        /\ learningPaths[p].courses[1].title = learningPaths[p].courses[2].title

\* ------------------------------------------------------------ claim C30
\* no two accounts of the stored user database share an email
EmailsUnique ==
    \A i, j \in 1 .. Len(UsersDb) :
        UsersDb[i].email = UsersDb[j].email => i = j

\* C30: over any sequence of signup, login, logout and updateUser calls no
\* two accounts of the stored user database share an email.  A signup with an
\* email already present shows the error and leaves the database and the
\* current session unchanged; the database grows only by one account at a
\* time, appended by a signup that logs nobody in; and a step that keeps the
\* number of accounts (updateUser among them) keeps every account's id, email
\* and password.
C30_AccountsUniqueByEmail ==
    /\ []EmailsUnique
    /\ [][ /\ \A n \in Names, e \in EmailInputs, p \in Passwords :
                (handleSignup(n, e, p)
                    /\ \E i \in 1 .. Len(UsersDb) : UsersDb[i].email = e)
                => /\ authError' = EmailExists
                   /\ UsersDb' = UsersDb
                   /\ user' = user
                   /\ localStorage'[CURRENT_USER_KEY] = localStorage[CURRENT_USER_KEY]
           /\ Len(UsersDb') # Len(UsersDb) =>
                /\ Len(UsersDb') = Len(UsersDb) + 1
                /\ SubSeq(UsersDb', 1, Len(UsersDb)) = UsersDb
                /\ user = Null /\ user' = Null
                /\ localStorage'[CURRENT_USER_KEY] = localStorage[CURRENT_USER_KEY]
           /\ Len(UsersDb') = Len(UsersDb) =>
                \A i \in 1 .. Len(UsersDb) :
                    /\ UsersDb'[i].id = UsersDb[i].id
                    /\ UsersDb'[i].email = UsersDb[i].email
                    /\ UsersDb'[i].password = UsersDb[i].password
         ]_vars

\* Two accounts exist, one of them changed by updateUser since its signup
\* (it holds an API key), nobody is logged in, and a signup with an email
\* already present has just been refused.
C30_Witness ==
    /\ Len(UsersDb) = 2
    /\ user = Null
    /\ authError = EmailExists
    /\ \E i \in 1 .. 2 : UsersDb[i].apiKey /\ UsersDb[i].password = "q"

====
